---- MODULE Spec2Model ----
(***************************************************************************)
(* DBFetch: the pooled-connection executor (models/db_connection.py), the  *)
(* orchestrator (controllers/dbf_to_sql_controller.py, main.py) and the    *)
(* record filter (models/dbf_reader.py, controllers/dbf_controller.py).    *)
(*                                                                         *)
(* The psycopg2 pool object is modelled by the attributes the code touches:*)
(* psycopg2.pool.AbstractConnectionPool keeps its state in the attribute   *)
(* `closed` (set by closeall, tested by getconn/putconn/closeall); it has  *)
(* no attribute `_closed`.  A pool is a record whose DOMAIN is the set of  *)
(* attributes of the object, so hasattr(pool, a) is a \in DOMAIN pool.     *)
(***************************************************************************)
EXTENDS Integers, Sequences, FiniteSets, TLC

\* ------------------------------------------------------------------ bounds
MaxPools == 3     \* pool handles ever created in one process
MaxStmts == 2     \* statements generated by one process_start

\* --------------------------------------------------------------- constants
min_conn == 1
max_conn == 1

VARIABLES
    instance,      \* DBConnection._instance is not None
    pool,          \* DBConnection._instance._pool (NoPool is None)
    poolsCreated,  \* number of ThreadedConnectionPool objects constructed
    last,          \* the call on DBConnection that ended last: inputs, outcome, trace
    prevFail,      \* <<classification, result, message>> of the failed execute_query before it
    ctrl,          \* the DbftoSqlController and the position of its run
    flt,           \* a filter call: the file's records, the conditions, the result
    fmt,           \* a call on the SQL formatter: its arguments and what it gave
    thr,           \* threads calling execute_query at once: where each is, the pools
    dbf            \* the DBFController: its reader, and the call on it that ended last

vars == <<instance, pool, poolsCreated, last, prevFail, ctrl, flt, fmt, thr, dbf>>

\* the state of the executor and the orchestrator, which a filter call leaves alone
orchVars == <<instance, pool, poolsCreated, last, prevFail, ctrl>>

\* --------------------------------------------------------------- the pool
NoPool == [exists |-> FALSE, id |-> 0, closed |-> FALSE, used |-> 0, idle |-> 0]

\* ThreadedConnectionPool(minconn, maxconn, **cfg): minconn live connections
NewPool(n) == [exists |-> TRUE, id |-> n, closed |-> FALSE, used |-> 0, idle |-> min_conn]

HasAttr(p, a) == a \in DOMAIN p

\* hasattr(self._pool, '_closed') and self._pool._closed
MarkedClosed(p) == HasAttr(p, "_closed") /\ p["_closed"]

IsOpen(p) == p.exists /\ ~p.closed

\* outcomes of opening connections to the configured endpoint
ConnectOutcomes == {"ok", "auth", "nodb", "norole", "other", "unexpected"}

\* the message _initialize_pool prints for a failed connection
InitMessage(connect) ==
    CASE connect = "ok"         -> "Database pool initialized successfully"
      [] connect = "auth"       -> "Authentication Error: Invalid username or password"
      [] connect = "nodb"       -> "Database Error: The specified database does not exist"
      [] connect = "norole"     -> "Authentication Error: The specified user/role does not exist"
      [] connect = "other"      -> "Connection Error"
      [] connect = "unexpected" -> "Error initializing connection pool"

\* DBConnection._initialize_pool: result pool, constructor count, message
InitializePool(p, n, connect) ==
    IF p.exists /\ ~MarkedClosed(p)
    THEN [pool |-> p, created |-> n, built |-> FALSE, msg |-> ""]
    ELSE IF connect = "ok"
         THEN [pool |-> NewPool(n + 1), created |-> n + 1, built |-> TRUE,
               msg |-> InitMessage(connect)]
         ELSE [pool |-> NoPool, created |-> n, built |-> FALSE,
               msg |-> InitMessage(connect)]

EnsureAlwaysReinit(p, n, connect) ==
    IF connect = "ok"
    THEN [pool |-> NewPool(n + 1), created |-> n + 1, built |-> TRUE,
          msg |-> InitMessage(connect)]
    ELSE [pool |-> NoPool, created |-> n, built |-> FALSE, msg |-> InitMessage(connect)]

\* DBConnection.ensure_pool_is_open
EnsurePoolIsOpen(p, n, connect) ==
    IF ~p.exists \/ MarkedClosed(p)
    THEN InitializePool(p, n, connect)
    ELSE [pool |-> p, created |-> n, built |-> FALSE, msg |-> ""]

\* self._pool.getconn(): an idle connection, else a new one up to maxconn
GetConn(p, connect) ==
    IF p.closed THEN [ok |-> FALSE, exc |-> "PoolError", pool |-> p]
    ELSE IF p.idle > 0
         THEN [ok |-> TRUE, exc |-> "", pool |-> [p EXCEPT !.idle = @ - 1, !.used = @ + 1]]
    ELSE IF p.used >= max_conn THEN [ok |-> FALSE, exc |-> "PoolError", pool |-> p]
    ELSE IF connect = "ok"
         THEN [ok |-> TRUE, exc |-> "", pool |-> [p EXCEPT !.used = @ + 1]]
         ELSE [ok |-> FALSE, exc |-> "OperationalError", pool |-> p]

\* self._pool.putconn(conn): a live connection goes back idle (any open
\* transaction is rolled back by the pool), a broken one is discarded
PutConn(p, alive) ==
    IF alive /\ p.idle < min_conn
    THEN [p EXCEPT !.used = @ - 1, !.idle = @ + 1]
    ELSE [p EXCEPT !.used = @ - 1]

TxnStepPutKeepsStatus(status, event) ==
    CASE event = "execute" -> "INTRANS"
      [] event \in {"commit", "rollback"} -> "IDLE"
      [] event = "rollback_raised" -> "UNKNOWN"
      [] OTHER -> status

\* the transaction status of the connection after a call on it: cur.execute
\* begins a transaction, conn.commit() and conn.rollback() end it, a
\* rollback that raises leaves a broken connection; putconn closes a broken
\* connection and rolls back one that is in a transaction
TxnStep(status, event) ==
    CASE event = "execute" -> "INTRANS"
      [] event \in {"commit", "rollback"} -> "IDLE"
      [] event = "rollback_raised" -> "UNKNOWN"
      [] event = "putconn" -> IF status = "UNKNOWN" THEN "CLOSED" ELSE "IDLE"
      [] OTHER -> status

\* the status of the connection of a call after the calls of the trace
RECURSIVE TxnFrom(_, _, _)
TxnFrom(status, events, k) ==
    IF k > Len(events) THEN status
    ELSE TxnFrom(TxnStep(status, events[k]), events, k + 1)

TxnAfter(events) == TxnFrom("IDLE", events, 1)

\* self._pool.closeall()
CloseAll(p) == [p EXCEPT !.closed = TRUE, !.used = 0, !.idle = 0]

\* ------------------------------------------------------------ execute_query
\* what the body of the inner try does: it completes, or raises an exception
BodyOutcomes == {"ok", "DuplicateTable", "UniqueViolation", "SyntaxError",
                 "DataError", "TypeError"}

\* what conn.rollback() does in a handler: it completes, or the connection is
\* lost (OperationalError) or already closed (InterfaceError)
RollbackOutcomes == {"ok", "OperationalError", "InterfaceError"}

\* the classes an exception is an instance of (psycopg2's hierarchy)
Bases(e) ==
    CASE e = "DuplicateTable"   -> {"DuplicateTable", "ProgrammingError", "Error", "Exception"}
      [] e = "UniqueViolation"  -> {"UniqueViolation", "IntegrityError", "Error", "Exception"}
      [] e = "SyntaxError"      -> {"SyntaxError", "ProgrammingError", "Error", "Exception"}
      [] e = "DataError"        -> {"DataError", "Error", "Exception"}
      [] e = "OperationalError" -> {"OperationalError", "Error", "Exception"}
      [] e = "InterfaceError"   -> {"InterfaceError", "Error", "Exception"}
      [] e = "PoolError"        -> {"PoolError", "Error", "Exception"}
      [] OTHER                  -> {e, "Exception"}

\* the except clauses of execute_query, in order: <<class caught, message>>
Handlers == <<
    <<"DuplicateTable",   "Error: Table already exists">>,
    <<"UniqueViolation",  "Error: Unique constraint violation">>,
    <<"ProgrammingError", "Error: Invalid SQL query">>,
    <<"Error",            "Error">>,
    <<"Exception",        "Error: Unexpected error">> >>

\* the first except clause that catches e
Handler(e) ==
    LET i == CHOOSE k \in 1..Len(Handlers) :
                 /\ Handlers[k][1] \in Bases(e)
                 /\ \A j \in 1..(k - 1) : Handlers[j][1] \notin Bases(e)
    IN Handlers[i]

\* the classification the matching handler stands for
Classification(e) ==
    LET h == Handler(e)[1] IN
    CASE h = "DuplicateTable"   -> "duplicate_target_exists"
      [] h = "UniqueViolation"  -> "unique_constraint_violation"
      [] h = "ProgrammingError" -> "invalid_statement"
      [] h = "Error"            -> "generic_engine_error"
      [] h = "Exception"        -> "unexpected_error"

Classifications == {"duplicate_target_exists", "unique_constraint_violation",
                    "invalid_statement", "generic_engine_error", "unexpected_error"}

HandlerResultByKind(e) == Classification(e)

\* the value a handler returns to the caller of execute_query
HandlerResult(e) == "None"

\* the result of a call: what is left of the pool, how the call ended
\* (returned / raised), the value returned, the failure kind, and the trace
\* of the calls made on the pool and the connection
Call(p, n, outcome, result, kind, events, msg) ==
    [pool |-> p, created |-> n, outcome |-> outcome, result |-> result,
     kind |-> kind, events |-> events, msg |-> msg]

HandleNoRollback(g, n, e, rb) ==
    Call(PutConn(g, TRUE), n, "returned", HandlerResult(e), Classification(e),
         <<"getconn", "execute", "log", "putconn">>, Handler(e)[2])

HandleNoRelease(g, n, e, rb) ==
    Call(g, n, "returned", HandlerResult(e), Classification(e),
         <<"getconn", "execute", "rollback", "log">>, Handler(e)[2])

HandleDropsPool(g, n, e, rb) ==
    Call(NoPool, n, "returned", HandlerResult(e), Classification(e),
         <<"getconn", "execute", "rollback", "log", "putconn">>, Handler(e)[2])

\* the handler of exception e, run while the connection is checked out of g
Handle(g, n, e, rb) ==
    IF rb = "ok"
    THEN Call(PutConn(g, TRUE), n, "returned", HandlerResult(e), Classification(e),
              <<"getconn", "execute", "rollback", "log", "putconn">>, Handler(e)[2])
    ELSE IF "OperationalError" \in Bases(rb)
    THEN \* get_connection turns it into ConnectionError, execute_query catches that
         Call(PutConn(g, FALSE), n, "returned", "None", "connectivity",
              <<"getconn", "execute", "rollback_raised", "putconn">>,
              "Database connection error")
    ELSE Call(PutConn(g, FALSE), n, "raised", rb, "none",
              <<"getconn", "execute", "rollback_raised", "putconn">>, "")

\* DBConnection.execute_query(query) with get_connection inlined
ExecuteQuery(p, n, isSelect, body, rb, connect) ==
    LET ens == EnsurePoolIsOpen(p, n, connect) IN
    IF ~ens.pool.exists
    THEN \* get_connection raises ConnectionError, caught at line 142
         Call(ens.pool, ens.created, "returned", "None", "connectivity", <<>>,
              "Database connection error")
    ELSE LET g == GetConn(ens.pool, connect) IN
         IF ~g.ok
         THEN IF "OperationalError" \in Bases(g.exc)
              THEN Call(g.pool, ens.created, "returned", "None", "connectivity",
                        <<"getconn_raised">>, "Database connection error")
              ELSE Call(g.pool, ens.created, "raised", g.exc, "none",
                        <<"getconn_raised">>, "")
         ELSE IF body = "ok"
              THEN IF isSelect
                   THEN Call(PutConn(g.pool, TRUE), ens.created, "returned", "rows", "none",
                             <<"getconn", "execute", "fetchall", "putconn">>, "")
                   ELSE Call(PutConn(g.pool, TRUE), ens.created, "returned", "rowcount", "none",
                             <<"getconn", "execute", "commit", "putconn">>, "")
              ELSE Handle(g.pool, ens.created, body, rb)

\* DBConnection.close_pool
ClosePool(p) ==
    IF p.exists
    THEN IF p.closed
         THEN [pool |-> p, outcome |-> "raised", result |-> "PoolError"]
         ELSE [pool |-> CloseAll(p), outcome |-> "returned", result |-> "None"]
    ELSE [pool |-> p, outcome |-> "returned", result |-> "None"]

\* DBConnection.__new__(cls, db_config, min_conn, max_conn)
NewDBConnectionSecondPool(inst, p, n, connect) ==
    IF connect = "ok"
    THEN [pool |-> NewPool(n + 1), created |-> n + 1, built |-> TRUE,
          msg |-> InitMessage(connect)]
    ELSE [pool |-> p, created |-> n, built |-> FALSE, msg |-> ""]

\* DBConnection.__new__
NewDBConnection(inst, p, n, connect) ==
    IF ~inst
    THEN InitializePool(p, n, connect)
    ELSE [pool |-> p, created |-> n, built |-> FALSE, msg |-> ""]

\* --------------------------------------------------- calls on DBConnection
\* the record of the call that ended last
Last(op, before, connect, isSelect, body, rb, c) ==
    [op |-> op, before |-> before, connect |-> connect, isSelect |-> isSelect,
     body |-> body, rb |-> rb, outcome |-> c.outcome, result |-> c.result,
     kind |-> c.kind, events |-> c.events, msg |-> c.msg]

Returned(msg) == [outcome |-> "returned", result |-> "None", kind |-> "none",
                  events |-> <<>>, msg |-> msg]

NoFail == <<"none", "none", "">>

\* a call of execute_query that ended in a failure value
Failed(l) == l.op = "execute_query" /\ l.outcome = "returned" /\ l.kind # "none"

\* the inputs that a call reads: rollback is called only in a handler, and a
\* connection is opened only when the pool has no idle one
RollbackInputs(body) == IF body = "ok" THEN {"ok"} ELSE RollbackOutcomes

ConnectInputs(p) == IF IsOpen(p) /\ p.idle > 0 THEN {"ok"} ELSE ConnectOutcomes

\* DbftoSqlController.__init__
NewCtrl == [exists |-> TRUE, initialized |-> FALSE, db_connection |-> FALSE,
            phase |-> "idle", inMain |-> FALSE, exec |-> FALSE, n |-> 0, i |-> 0,
            executed |-> <<>>, failed |-> {}, raisedAt |-> 0, done |-> "none",
            createdAtStart |-> 0, mainEnded |-> FALSE, steps |-> {}]

NoCtrl == [NewCtrl EXCEPT !.exists = FALSE]

\* no thread is running
NoThreads == [pc |-> <<>>, got |-> <<>>, ended |-> <<>>, handle |-> 0, pools |-> <<>>,
              startedOpen |-> FALSE]

\* a value a caller passes for an Optional[int]: None, or an int
None == [none |-> TRUE, v |-> 0]
Some(v) == [none |-> FALSE, v |-> v]

\* DBFController.__init__: self.dbf_reader = None, no call made yet
NoReader == [held |-> FALSE, total |-> 0, max_records |-> 0]
NoDbf == [reader |-> NoReader, op |-> "none", arg |-> None, isNone |-> FALSE,
          flag |-> FALSE, count |-> 0, out |-> <<>>, fields |-> <<>>, conds |-> <<>>,
          before |-> NoReader]

\* no call on the formatter has been made
NoFormat == [op |-> "none", phase |-> "none", table |-> <<>>, missing |-> FALSE,
             records |-> <<>>, fields |-> <<>>, batch_size |-> 1, preview |-> FALSE,
             ok |-> TRUE, statements |-> <<>>, saved |-> <<>>, handed |-> <<>>,
             value |-> <<>>, kind |-> "C", literal |-> <<>>, accepted |-> FALSE,
             standard_conforming_strings |-> TRUE]

\* no filter call has been made
NoFilter == [records |-> <<>>, conds |-> <<>>, limit |-> -1, phase |-> "none",
             ok |-> TRUE, out |-> <<>>, after |-> <<>>, visited |-> 0]

Init ==
    /\ instance = FALSE
    /\ pool = NoPool
    /\ poolsCreated = 0
    /\ last = Last("init", NoPool, "ok", FALSE, "ok", "ok", Returned(""))
    /\ prevFail = NoFail
    /\ ctrl = NoCtrl
    /\ thr = NoThreads
    /\ dbf = NoDbf
    /\ fmt = NoFormat
    /\ flt = NoFilter

\* db = DBConnection(db_config)
Construct(connect) ==
    /\ LET r == NewDBConnection(instance, pool, poolsCreated, connect) IN
       /\ r.created <= MaxPools
       /\ instance' = TRUE
       /\ pool' = r.pool
       /\ poolsCreated' = r.created
       /\ last' = Last("construct", pool, connect, FALSE, "ok", "ok", Returned(r.msg))
    /\ UNCHANGED <<prevFail, ctrl, flt, fmt, thr, dbf>>

\* db.ensure_pool_is_open()
Ensure(connect) ==
    /\ instance
    /\ LET r == EnsurePoolIsOpen(pool, poolsCreated, connect) IN
       /\ r.created <= MaxPools
       /\ pool' = r.pool
       /\ poolsCreated' = r.created
       /\ last' = Last("ensure", pool, connect, FALSE, "ok", "ok", Returned(r.msg))
    /\ UNCHANGED <<instance, prevFail, ctrl, flt, fmt, thr, dbf>>

\* db.execute_query(query)
Execute(isSelect, body, rb, connect) ==
    /\ instance
    /\ LET r == ExecuteQuery(pool, poolsCreated, isSelect, body, rb, connect) IN
       /\ r.created <= MaxPools
       /\ pool' = r.pool
       /\ poolsCreated' = r.created
       /\ last' = Last("execute_query", pool, connect, isSelect, body, rb, r)
       /\ prevFail' = IF Failed(last) THEN <<last.kind, last.result, last.msg>> ELSE prevFail
    /\ UNCHANGED <<instance, ctrl, flt, fmt, thr, dbf>>

\* db.close_pool()
Close ==
    /\ instance
    /\ LET r == ClosePool(pool) IN
       /\ pool' = r.pool
       /\ last' = Last("close_pool", pool, "ok", FALSE, "ok", "ok",
                       [outcome |-> r.outcome, result |-> r.result, kind |-> "none",
                        events |-> <<>>, msg |-> ""])
    /\ UNCHANGED <<instance, poolsCreated, prevFail, ctrl, flt, fmt, thr, dbf>>

\* the calls one caller at a time makes on DBConnection
Next ==
    \/ \E connect \in ConnectOutcomes : Construct(connect)
    \/ \E connect \in ConnectOutcomes : Ensure(connect)
    \/ \E isSelect \in BOOLEAN, body \in BodyOutcomes :
          \E rb \in RollbackInputs(body), connect \in ConnectInputs(pool) :
              Execute(isSelect, body, rb, connect)
    \/ Close

Spec == Init /\ [][Next]_vars

\* ------------------------------------------------------- the orchestrator
\* what process_start gets before it executes anything: the file is missing
\* or invalid, formatting or saving raises, or n statements were generated
Gens == {[kind |-> "missing", n |-> 0], [kind |-> "error", n |-> 0]}
        \cup {[kind |-> "stmts", n |-> k] : k \in 1..MaxStmts}

\* DbftoSqlController._get_db_connection
GetDbConnection(c, inst, p, n, connect) ==
    IF ~c.db_connection
    THEN LET r == NewDBConnection(inst, p, n, connect) IN
         [ctrl |-> [c EXCEPT !.db_connection = TRUE], instance |-> TRUE,
          pool |-> r.pool, created |-> r.created]
    ELSE LET r == EnsurePoolIsOpen(p, n, connect) IN
         [ctrl |-> c, instance |-> inst, pool |-> r.pool, created |-> r.created]

CleanupForgetsPool(c, p) ==
    [ctrl |-> [c EXCEPT !.db_connection = FALSE], pool |-> p, outcome |-> "returned"]

\* DbftoSqlController.cleanup
Cleanup(c, p) ==
    IF c.db_connection /\ p.exists
    THEN LET r == ClosePool(p) IN
         IF r.outcome = "raised"
         THEN [ctrl |-> c, pool |-> p, outcome |-> "raised"]
         ELSE [ctrl |-> [c EXCEPT !.db_connection = FALSE], pool |-> r.pool,
               outcome |-> "returned"]
    ELSE [ctrl |-> c, pool |-> p, outcome |-> "returned"]

\* where the run goes when process_start has ended: back to its caller, or to
\* the finally block of main
After(c) == IF c.inMain THEN "finally" ELSE "idle"

\* the loop over sql_statements goes on after statement i, whose call ended as
\* r: a value returned goes on to the next statement, an exception leaves the loop
LoopGoesOn(c, r) == r.outcome = "returned" /\ c.i < c.n

\* the fields of a run that starts
Started(c, exec, n) ==
    [c EXCEPT !.exec = exec, !.n = n, !.i = 0, !.executed = <<>>, !.failed = {},
              !.raisedAt = 0, !.done = "none", !.createdAtStart = poolsCreated,
              !.mainEnded = FALSE, !.steps = {}]

\* what process_start has done before it executes anything: "file" for the
\* lookup and read of the DBF file, "statements" for format_to_sql and the
\* save of the preview
StepsOf(gen) == IF gen.kind = "missing" THEN {"file"} ELSE {"file", "statements"}

\* process_start from line 66 on, up to the first statement it executes
BeginConfigured(c, gen, exec, connect) ==
    IF gen.kind # "stmts" \/ ~exec
    THEN /\ ctrl' = [Started(c, exec, gen.n) EXCEPT
                        !.done = IF gen.kind = "error" THEN "raised" ELSE "completed",
                        !.phase = After(c),
                        !.steps = StepsOf(gen)]
         /\ UNCHANGED <<instance, pool, poolsCreated>>
    ELSE LET g == GetDbConnection(c, instance, pool, poolsCreated, connect) IN
         /\ g.created <= MaxPools
         /\ ctrl' = [Started(g.ctrl, exec, gen.n) EXCEPT
                        !.phase = "executing", !.i = 1,
                        !.steps = StepsOf(gen) \cup {"connection"}]
         /\ instance' = g.instance
         /\ pool' = g.pool
         /\ poolsCreated' = g.created

BeginWithoutCheck(c, gen, exec, connect) == BeginConfigured(c, gen, exec, connect)

\* process_start, up to the first statement it executes
Begin(c, gen, exec, connect) ==
    IF ~c.initialized
    THEN /\ ctrl' = [Started(c, exec, 0) EXCEPT !.done = "raised", !.phase = After(c)]
         /\ UNCHANGED <<instance, pool, poolsCreated>>
    ELSE BeginConfigured(c, gen, exec, connect)

RunIdle == ctrl.phase = "idle"

\* toSql = DbftoSqlController()
CreateController ==
    /\ RunIdle
    /\ ctrl' = NewCtrl
    /\ UNCHANGED <<instance, pool, poolsCreated, last, prevFail, flt, fmt, thr, dbf>>

\* toSql.set_config(...)
SetConfig ==
    /\ RunIdle
    /\ ctrl.exists
    /\ ctrl' = [ctrl EXCEPT !.initialized = TRUE, !.mainEnded = FALSE]
    /\ UNCHANGED <<instance, pool, poolsCreated, last, prevFail, flt, fmt, thr, dbf>>

\* toSql.process_start() called by a caller other than main
ProcessStart(gen, exec, connect) ==
    /\ RunIdle
    /\ ctrl.exists
    /\ Begin([ctrl EXCEPT !.inMain = FALSE], gen, exec, connect)
    /\ UNCHANGED <<last, prevFail, flt, fmt, thr, dbf>>

\* one turn of the loop over sql_statements: db.execute_query(statement)
ProcessStep(body, rb, connect) ==
    /\ ctrl.phase = "executing"
    /\ LET r == ExecuteQuery(pool, poolsCreated, FALSE, body, rb, connect)
           c == [ctrl EXCEPT
                   !.executed = IF r.outcome = "returned" THEN Append(@, ctrl.i) ELSE @,
                   !.failed = IF r.kind \in Classifications THEN @ \cup {ctrl.i} ELSE @,
                   !.raisedAt = IF r.outcome = "raised" THEN ctrl.i ELSE @]
       IN
       /\ r.created <= MaxPools
       /\ pool' = r.pool
       /\ poolsCreated' = r.created
       /\ ctrl' = IF LoopGoesOn(ctrl, r)
                  THEN [c EXCEPT !.i = @ + 1]
                  ELSE [c EXCEPT !.done = "completed", !.phase = After(ctrl)]
    /\ UNCHANGED <<instance, last, prevFail, flt, fmt, thr, dbf>>

\* toSql.cleanup() called by a caller other than main
CleanUp ==
    /\ RunIdle
    /\ ctrl.exists
    /\ LET r == Cleanup(ctrl, pool) IN
       /\ ctrl' = [r.ctrl EXCEPT !.mainEnded = FALSE]
       /\ pool' = r.pool
    /\ UNCHANGED <<instance, poolsCreated, last, prevFail, flt, fmt, thr, dbf>>

\* main(), up to the first statement process_start executes
Main(gen, exec, connect) ==
    /\ RunIdle
    /\ Begin([NewCtrl EXCEPT !.initialized = TRUE, !.inMain = TRUE], gen, exec, connect)
    /\ UNCHANGED <<last, prevFail, flt, fmt, thr, dbf>>

\* main(): the finally block, after process_start ended or raised
MainFinally ==
    /\ ctrl.phase = "finally"
    /\ LET r == Cleanup(ctrl, pool) IN
       /\ ctrl' = [r.ctrl EXCEPT !.phase = "idle", !.inMain = FALSE, !.mainEnded = TRUE]
       /\ pool' = r.pool
    /\ UNCHANGED <<instance, poolsCreated, last, prevFail, flt, fmt, thr, dbf>>

\* the runs of the orchestrator, one caller at a time
NextRun ==
    \/ CreateController
    \/ SetConfig
    \/ \E gen \in Gens, exec \in BOOLEAN, connect \in ConnectInputs(pool) :
          ProcessStart(gen, exec, connect)
    \/ \E body \in BodyOutcomes :
          \E rb \in RollbackInputs(body), connect \in ConnectInputs(pool) :
              ProcessStep(body, rb, connect)
    \/ CleanUp
    \/ \E gen \in Gens, exec \in BOOLEAN, connect \in ConnectInputs(pool) :
          Main(gen, exec, connect)
    \/ MainFinally

SpecRun == Init /\ [][NextRun]_vars

\* -------------------------------------------------------- the record filter
\* Values are tagged with their runtime type.  A string is held as a code:
\* codes 1 and 2 are the texts of the dates 1 and 2 in the form %Y-%m-%d,
\* code 3 is a text strptime rejects.
Null == [t |-> "null", v |-> 0]
Num(x) == [t |-> "num", v |-> x]
Date(x) == [t |-> "date", v |-> x]
Str(x) == [t |-> "str", v |-> x]

\* what stands for a key that a condition dictionary does not have
Absent == [t |-> "absent", v |-> 0]

AbsentName == "(absent)"

\* key in condition
Has(c, key) == IF key \in {"field", "operator"} THEN c[key] # AbsentName ELSE c[key] # Absent

\* the field names of the file, in column order
FieldNames == <<"AMOUNT", "FECHA">>

ValidOperators == {"=", ">", "<", ">=", "<=", "between"}

\* datetime.strptime(text, '%Y-%m-%d') and .date() of it
ParseDate(x) ==
    IF x.v \in {1, 2}
    THEN [ok |-> TRUE, value |-> Date(x.v)]
    ELSE [ok |-> FALSE, value |-> x]

\* a op b in Python: values of one type compare by value, values of two types
\* are unequal and have no order (TypeError)
Cmp(op, a, b) ==
    IF op = "=" THEN (IF a = b THEN "true" ELSE "false")
    ELSE IF a.t # b.t \/ a.t \in {"null", "absent"} THEN "TypeError"
    ELSE CASE op = ">"  -> IF a.v > b.v  THEN "true" ELSE "false"
           [] op = "<"  -> IF a.v < b.v  THEN "true" ELSE "false"
           [] op = ">=" -> IF a.v >= b.v THEN "true" ELSE "false"
           [] op = "<=" -> IF a.v <= b.v THEN "true" ELSE "false"

\* the outcome of one condition on one record: the record passes it, fails
\* it, or an exception is raised; cond is the condition as the code leaves it
Verdict(res, cond) == [res |-> res, cond |-> cond]

OfCmp(x, cond) ==
    Verdict(CASE x = "true" -> "pass" [] x = "false" -> "fail" [] OTHER -> "raise", cond)

ApplyOperatorExclusive(operator, rv, value, cond) ==
    IF operator \in {"=", ">", "<", ">=", "<="}
    THEN OfCmp(Cmp(operator, rv, value), cond)
    ELSE IF operator = "between"
    THEN IF ~Has(cond, "value2") THEN Verdict("raise", cond)
         ELSE LET low == Cmp("<", value, rv) IN
              IF low # "true" THEN OfCmp(low, cond)
              ELSE OfCmp(Cmp("<=", rv, cond.value2), cond)
    ELSE Verdict("pass", cond)

\* lines 329-348: the operator applied to the record value and the literal
ApplyOperator(operator, rv, value, cond) ==
    IF operator \in {"=", ">", "<", ">=", "<="}
    THEN OfCmp(Cmp(operator, rv, value), cond)
    ELSE IF operator = "between"
    THEN IF ~Has(cond, "value2") THEN Verdict("raise", cond)
         ELSE LET low == Cmp("<=", value, rv) IN
              IF low # "true" THEN OfCmp(low, cond)
              ELSE OfCmp(Cmp("<=", rv, cond.value2), cond)
    ELSE Verdict("pass", cond)

EvalConditionSkipsNull(record, c) ==
    IF ~Has(c, "field") \/ ~Has(c, "value") \/ c.field \notin DOMAIN record
    THEN Verdict("raise", c)
    ELSE LET operator == IF Has(c, "operator") THEN c.operator ELSE "="
             rv == record[c.field] IN
         IF rv = Null THEN Verdict("pass", c)
         ELSE ApplyOperator(operator, rv, c.value, c)

\* one turn of the loop of _matches_conditions (lines 304-348)
EvalCondition(record, c) ==
    IF ~Has(c, "field") \/ ~Has(c, "value") \/ c.field \notin DOMAIN record
    THEN Verdict("raise", c)
    ELSE LET operator == IF Has(c, "operator") THEN c.operator ELSE "="
             rv == record[c.field] IN
         IF rv = Null THEN Verdict("fail", c)
         ELSE IF rv.t # "date" THEN ApplyOperator(operator, rv, c.value, c)
         ELSE LET p1 == IF c.value.t = "str" THEN ParseDate(c.value)
                        ELSE [ok |-> TRUE, value |-> c.value] IN
              IF ~p1.ok THEN Verdict("fail", c)
              ELSE IF operator # "between" THEN ApplyOperator(operator, rv, p1.value, c)
              ELSE IF ~Has(c, "value2") THEN Verdict("raise", c)
              ELSE IF c.value2.t # "str" THEN ApplyOperator(operator, rv, p1.value, c)
              ELSE LET p2 == ParseDate(c.value2) IN
                   IF ~p2.ok THEN Verdict("fail", c)
                   ELSE ApplyOperator(operator, rv, p1.value,
                                      [c EXCEPT !.value2 = p2.value])

RECURSIVE MatchFrom(_, _, _)
MatchFrom(record, conds, k) ==
    IF k > Len(conds) THEN [res |-> "true", conds |-> conds]
    ELSE LET e == EvalCondition(record, conds[k])
             cs == [conds EXCEPT ![k] = e.cond] IN
         IF e.res = "pass" THEN MatchFrom(record, cs, k + 1)
         ELSE [res |-> IF e.res = "fail" THEN "false" ELSE "raise", conds |-> cs]

\* DBFReader._matches_conditions: "true", "false" or "raise", and the
\* condition list as the call leaves it
MatchesConditions(record, conds) == MatchFrom(record, conds, 1)

\* limit = None
NoLimit == -1

\* bool(limit): None and 0 are false
Truthy(limit) == limit # NoLimit /\ limit # 0

\* the result of a filter call: a list of records, or None (ok = FALSE)
Filtered(ok, out, conds, visited) ==
    [ok |-> ok, out |-> out, conds |-> conds, visited |-> visited]

RECURSIVE FilterFrom(_, _, _, _, _)
FilterFrom(records, conds, limit, k, out) ==
    IF k > Len(records) THEN Filtered(TRUE, out, conds, k - 1)
    ELSE LET m == MatchesConditions(records[k], conds) IN
         IF m.res = "raise" THEN Filtered(FALSE, <<>>, m.conds, k)
         ELSE IF m.res = "false" THEN FilterFrom(records, m.conds, limit, k + 1, out)
         ELSE LET o == Append(out, records[k]) IN
              IF Truthy(limit) /\ Len(o) >= limit
              THEN Filtered(TRUE, o, m.conds, k)
              ELSE FilterFrom(records, m.conds, limit, k + 1, o)

\* DBFReader.get_filtered_records(conditions, limit)
ReaderGetFilteredRecords(records, conds, limit) ==
    IF \E k \in 1..Len(conds) :
           ~Has(conds[k], "field")
           \/ conds[k].field \notin { FieldNames[j] : j \in 1..Len(FieldNames) }
    THEN Filtered(FALSE, <<>>, conds, 0)
    ELSE FilterFrom(records, conds, limit, 1, <<>>)

GetFilteredRecordsAnyOperator(records, conds, limit) ==
    IF \E k \in 1..Len(conds) :
           LET c == conds[k]
               operator == IF Has(c, "operator") THEN c.operator ELSE "=" IN
           \/ ~Has(c, "field") \/ ~Has(c, "value")
           \/ (operator = "between" /\ ~Has(c, "value2"))
    THEN Filtered(FALSE, <<>>, conds, 0)
    ELSE ReaderGetFilteredRecords(records, conds, limit)

\* DBFController.get_filtered_records(conditions, limit), a reader being set
GetFilteredRecords(records, conds, limit) ==
    IF \E k \in 1..Len(conds) :
           LET c == conds[k]
               operator == IF Has(c, "operator") THEN c.operator ELSE "=" IN
           \/ ~Has(c, "field") \/ ~Has(c, "value")
           \/ operator \notin ValidOperators
           \/ (operator = "between" /\ ~Has(c, "value2"))
    THEN Filtered(FALSE, <<>>, conds, 0)
    ELSE ReaderGetFilteredRecords(records, conds, limit)

\* the inputs of a filter call
MaxRecs == 2      \* records in the file
MaxConds == 2     \* conditions in the list

Records == {[AMOUNT |-> a, FECHA |-> d] : a \in {Null, Num(1), Num(2)},
                                           d \in {Null, Date(1)}}

Cond(field, operator, value, value2) ==
    [field |-> field, operator |-> operator, value |-> value, value2 |-> value2]

\* well-formed conditions: every operator, a numeric and a date field, the
\* default operator, date literals given as text
Conds ==
    {Cond("AMOUNT", op, Num(1), Absent) : op \in ValidOperators \ {"between"}}
    \cup {Cond("AMOUNT", "between", Num(1), Num(2)),
          Cond("AMOUNT", AbsentName, Num(2), Absent),
          Cond("FECHA", ">=", Str(1), Absent),
          Cond("FECHA", "between", Str(1), Str(2))}

SeqsUpTo(S, n) == UNION {[1..k -> S] : k \in 0..n}

InitFilter ==
    /\ instance = FALSE
    /\ pool = NoPool
    /\ poolsCreated = 0
    /\ last = Last("init", NoPool, "ok", FALSE, "ok", "ok", Returned(""))
    /\ prevFail = NoFail
    /\ ctrl = NoCtrl
    /\ thr = NoThreads
    /\ dbf = NoDbf
    /\ fmt = NoFormat
    /\ \E r \in SeqsUpTo(Records, MaxRecs), c \in SeqsUpTo(Conds, MaxConds),
          l \in 0..MaxRecs :
          flt = [NoFilter EXCEPT !.records = r, !.conds = c, !.limit = l,
                                 !.phase = "ready"]

\* controller.get_filtered_records(conditions, limit)
Filter ==
    /\ flt.phase = "ready"
    /\ LET r == GetFilteredRecords(flt.records, flt.conds, flt.limit) IN
       flt' = [flt EXCEPT !.phase = "done", !.ok = r.ok, !.out = r.out,
                          !.after = r.conds, !.visited = r.visited]
    /\ UNCHANGED <<orchVars, fmt, thr, dbf>>

NextFilter == Filter

SpecFilter == InitFilter /\ [][NextFilter]_vars

\* ---------------------------------------------- filter calls on any input
\* condition lists as a caller may write them: well-formed conditions next to
\* a field the file does not have, an operator the filter does not know, a
\* between without value2, a missing key, a date literal that does not
\* parse, a literal of a type that has no order against the record value
AnyRecords == {[AMOUNT |-> a, FECHA |-> d] : a \in {Null, Num(1)},
                                              d \in {Null, Date(1)}}

AnyConds ==
    {Cond("AMOUNT", "=", Num(1), Absent),
     Cond("FECHA", ">=", Str(1), Absent),
     Cond("NOPE", "=", Num(1), Absent),
     Cond("AMOUNT", "like", Num(1), Absent),
     Cond("AMOUNT", "between", Num(1), Absent),
     Cond(AbsentName, "=", Num(1), Absent),
     Cond("AMOUNT", "=", Absent, Absent),
     Cond("FECHA", "=", Str(3), Absent),
     Cond("FECHA", "between", Str(1), Str(3)),
     Cond("AMOUNT", ">", Str(1), Absent)}

Limits == {NoLimit} \cup (0..(MaxRecs - 1))

InitFilterAny ==
    /\ instance = FALSE
    /\ pool = NoPool
    /\ poolsCreated = 0
    /\ last = Last("init", NoPool, "ok", FALSE, "ok", "ok", Returned(""))
    /\ prevFail = NoFail
    /\ ctrl = NoCtrl
    /\ thr = NoThreads
    /\ dbf = NoDbf
    /\ fmt = NoFormat
    /\ \E r \in SeqsUpTo(AnyRecords, MaxRecs), c \in SeqsUpTo(AnyConds, MaxConds),
          l \in Limits :
          flt = [NoFilter EXCEPT !.records = r, !.conds = c, !.limit = l,
                                 !.phase = "ready"]

SpecFilterAny == InitFilterAny /\ [][NextFilter]_vars

\* ------------------------------------------- one record, one between
\* record values below, on and above the bounds; bounds in both orders; on
\* the date field the bounds are given as text or as dates
MatchValues == 1..3

MatchRecords ==
    {[AMOUNT |-> a, FECHA |-> d] : a \in {Null} \cup {Num(x) : x \in MatchValues},
                                   d \in {Null} \cup {Date(x) : x \in MatchValues}}

BetweenConds ==
    {Cond("AMOUNT", "between", Num(a), Num(b)) : a, b \in MatchValues}
    \cup {Cond("FECHA", "between", Str(a), Str(b)) : a, b \in {1, 2}}
    \cup {Cond("FECHA", "between", Date(a), Date(b)) : a, b \in MatchValues}

InitMatch ==
    /\ instance = FALSE
    /\ pool = NoPool
    /\ poolsCreated = 0
    /\ last = Last("init", NoPool, "ok", FALSE, "ok", "ok", Returned(""))
    /\ prevFail = NoFail
    /\ ctrl = NoCtrl
    /\ thr = NoThreads
    /\ dbf = NoDbf
    /\ fmt = NoFormat
    /\ \E r \in MatchRecords, c \in BetweenConds :
          flt = [NoFilter EXCEPT !.records = <<r>>, !.conds = <<c>>,
                                 !.phase = "ready"]

\* self._matches_conditions(record, conditions)
Match ==
    /\ flt.phase = "ready"
    /\ LET m == MatchesConditions(flt.records[1], flt.conds) IN
       flt' = [flt EXCEPT !.phase = "done", !.ok = (m.res # "raise"),
                          !.out = IF m.res = "true" THEN <<flt.records[1]>> ELSE <<>>,
                          !.after = m.conds, !.visited = 1]
    /\ UNCHANGED <<orchVars, fmt, thr, dbf>>

NextMatch == Match

SpecMatch == InitMatch /\ [][NextMatch]_vars

\* --------------------------------------------------- the load-filters pass
valid_operators == {"=", ">", "<", ">=", "<=", "between"}

\* an item of the list that is not a dictionary (a number in the JSON list)
NotADict == [field |-> "(not a dict)", operator |-> AbsentName,
             value |-> Absent, value2 |-> Absent]

CheckConditionKeepsBetween(c) ==
    IF c = NotADict THEN "raise"
    ELSE IF ~Has(c, "field") \/ ~Has(c, "value") THEN "continue"
    ELSE LET operator == IF Has(c, "operator") THEN c.operator ELSE "=" IN
         IF operator \notin valid_operators THEN "continue"
         ELSE "append"

\* the body of the try of validate_filter_conditions (lines 241-257): the
\* condition is appended, skipped with a warning, or the test raises
CheckCondition(c) ==
    IF c = NotADict THEN "raise"
    ELSE IF ~Has(c, "field") \/ ~Has(c, "value") THEN "continue"
    ELSE LET operator == IF Has(c, "operator") THEN c.operator ELSE "=" IN
         IF operator \notin valid_operators THEN "continue"
         ELSE IF operator = "between" /\ ~Has(c, "value2") THEN "continue"
         ELSE "append"

\* the loop of lines 239-260; an exception of the body is caught and the
\* loop goes on with the next condition
RECURSIVE ValidateFrom(_, _, _)
ValidateFrom(conditions, k, valid_conditions) ==
    IF k > Len(conditions) THEN valid_conditions
    ELSE ValidateFrom(conditions, k + 1,
                      IF CheckCondition(conditions[k]) = "append"
                      THEN Append(valid_conditions, conditions[k])
                      ELSE valid_conditions)

\* validate_filter_conditions(conditions)
ValidateFilterConditions(conditions) == ValidateFrom(conditions, 1, <<>>)

\* the conditions of a filter configuration file
LoadConds ==
    AnyConds \cup {NotADict,
                   Cond("AMOUNT", "between", Num(1), Num(2)),
                   Cond("AMOUNT", AbsentName, Num(2), Absent)}

InitValidate ==
    /\ instance = FALSE
    /\ pool = NoPool
    /\ poolsCreated = 0
    /\ last = Last("init", NoPool, "ok", FALSE, "ok", "ok", Returned(""))
    /\ prevFail = NoFail
    /\ ctrl = NoCtrl
    /\ thr = NoThreads
    /\ dbf = NoDbf
    /\ fmt = NoFormat
    /\ \E c \in SeqsUpTo(LoadConds, MaxConds + 1) :
          flt = [NoFilter EXCEPT !.conds = c, !.phase = "ready"]

\* get_filter_conditions(): validate_filter_conditions(FILTER_CONFIG['filters'])
Validate ==
    /\ flt.phase = "ready"
    /\ flt' = [flt EXCEPT !.phase = "done", !.ok = TRUE,
                          !.out = ValidateFilterConditions(flt.conds)]
    /\ UNCHANGED <<orchVars, fmt, thr, dbf>>

NextValidate == Validate

SpecValidate == InitValidate /\ [][NextValidate]_vars

\* ------------------------------------------------------- the SQL formatter
\* texts are sequences of characters
Quote == "'"
Backslash == "\\"
Newline == "\n"
Return == "\r"
Tab == "\t"

Text(s) == [t |-> "text", v |-> 0, s |-> s]

NullText == <<"N", "U", "L", "L">>

Digits == <<"1", "2", "3", "4", "5", "6", "7", "8", "9">>

\* str(value)
StrOf(value) ==
    CASE value.t = "text" -> value.s
      [] value.t = "num"  -> <<Digits[value.v]>>
      [] value.t = "date" -> <<"2", "0", "2", "4", "-", "0", "1", "-", "0", Digits[value.v]>>

\* not value
Falsy(value) == value.t = "null" \/ (value.t = "text" /\ value.s = <<>>)

\* s.replace(old, new), old being one character
RECURSIVE Replace(_, _, _)
Replace(s, old, new) ==
    IF s = <<>> THEN <<>>
    ELSE (IF Head(s) = old THEN new ELSE <<Head(s)>>) \o Replace(Tail(s), old, new)

\* lines 36-37 and 54-55
EscapeCharacter(s) ==
    Replace(Replace(s, Quote, <<Quote, Quote>>), Backslash, <<Backslash, Backslash>>)

\* lines 45-49
EscapeMemo(s) ==
    Replace(Replace(Replace(EscapeCharacter(s), Newline, <<Backslash, "n">>),
                    Return, <<Backslash, "r">>),
            Tab, <<Backslash, "t">>)

FormatValueByValueType(value, field_type) ==
    IF value.t = "null" THEN NullText
    ELSE IF value.t = "num" THEN StrOf(value)
    ELSE CASE field_type = "N" -> StrOf(value)
           [] field_type = "D" -> <<Quote>> \o StrOf(value) \o <<Quote>>
           [] field_type = "M" ->
                IF Falsy(value) THEN NullText
                ELSE <<"E", Quote>> \o EscapeMemo(StrOf(value)) \o <<Quote>>
           [] OTHER -> <<Quote>> \o EscapeCharacter(StrOf(value)) \o <<Quote>>

\* SQLFormatter.format_value(value, field_type)
FormatValue(value, field_type) ==
    IF value.t = "null" THEN NullText
    ELSE CASE field_type = "N" -> StrOf(value)
           [] field_type = "D" -> <<Quote>> \o StrOf(value) \o <<Quote>>
           [] field_type = "C" -> <<Quote>> \o EscapeCharacter(StrOf(value)) \o <<Quote>>
           [] field_type = "M" ->
                IF Falsy(value) THEN NullText
                ELSE <<"E", Quote>> \o EscapeMemo(StrOf(value)) \o <<Quote>>
           [] OTHER -> <<Quote>> \o EscapeCharacter(StrOf(value)) \o <<Quote>>

\* str.isalnum() on the characters used here: letters and digits
AlnumChars ==
    {"a", "b", "c", "d", "e", "f", "i", "l", "m", "n", "t"} \cup {"1", "2"}

IsAlnum(s) == Len(s) > 0 /\ \A k \in 1..Len(s) : s[k] \in AlnumChars

ValidateTableNameAnyPunctuation(table_name) ==
    IsAlnum(Replace(Replace(table_name, "_", <<>>), ";", <<>>))

\* SQLFormatter._validate_table_name
ValidateTableName(table_name) == IsAlnum(Replace(table_name, "_", <<>>))

\* one row of a statement: the values of the record formatted in fields order
RenderRow(record, fields) ==
    [k \in 1..Len(fields) |-> FormatValue(record[fields[k].name], fields[k].type)]

\* sep.join(texts)
RECURSIVE Join(_, _)
Join(texts, sep) ==
    IF texts = <<>> THEN <<>>
    ELSE IF Len(texts) = 1 THEN texts[1]
    ELSE texts[1] \o <<sep>> \o Join(Tail(texts), sep)

\* SQLFormatter._create_single_insert: the table, the column list and the
\* rows, and the text of the statement (line 101)
CreateSingleInsert(table_name, fields, records) ==
    LET field_names == [k \in 1..Len(fields) |-> fields[k].name]
        rows == [k \in 1..Len(records) |-> RenderRow(records[k], fields)]
        values_list == [k \in 1..Len(rows) |-> <<"(">> \o Join(rows[k], ",") \o <<")">>] IN
    [table |-> table_name,
     columns |-> field_names,
     rows |-> rows,
     text |-> <<"INSERT INTO ">> \o table_name \o <<" (">>
              \o Join([k \in 1..Len(field_names) |-> <<field_names[k]>>], ",")
              \o <<") VALUES ">> \o Join(values_list, ",")]

\* what a call on the formatter gives: a list of statements, or ValueError
Formatted(ok, statements) == [ok |-> ok, statements |-> statements]

Min(a, b) == IF a < b THEN a ELSE b

RECURSIVE BatchesFromDropsShort(_, _, _, _, _, _)
BatchesFromDropsShort(table_name, records, fields, batch_size, i, statements) ==
    IF i + batch_size > Len(records) THEN statements
    ELSE LET batch == SubSeq(records, i + 1, i + batch_size) IN
         BatchesFromDropsShort(table_name, records, fields, batch_size, i + batch_size,
                               Append(statements, CreateSingleInsert(table_name, fields, batch)))

\* the loop of lines 77-80: for i in range(0, len(records), batch_size)
RECURSIVE BatchesFrom(_, _, _, _, _, _)
BatchesFrom(table_name, records, fields, batch_size, i, statements) ==
    IF i >= Len(records) THEN statements
    ELSE LET batch == SubSeq(records, i + 1, Min(i + batch_size, Len(records))) IN
         BatchesFrom(table_name, records, fields, batch_size, i + batch_size,
                     Append(statements, CreateSingleInsert(table_name, fields, batch)))

CreateInsertStatementsAnyRecords(table_name, missing, records, fields, batch_size) ==
    IF ~ValidateTableName(table_name) THEN Formatted(FALSE, <<>>)
    ELSE IF fields = <<>> THEN Formatted(FALSE, <<>>)
    ELSE IF batch_size = 0 THEN Formatted(FALSE, <<>>)
    ELSE Formatted(TRUE, BatchesFrom(table_name, records, fields, batch_size, 0, <<>>))

\* SQLFormatter.create_insert_statements(table_name, records, fields,
\* batch_size); missing: records is None
CreateInsertStatements(table_name, missing, records, fields, batch_size) ==
    IF ~ValidateTableName(table_name) THEN Formatted(FALSE, <<>>)
    ELSE IF fields = <<>> \/ missing \/ records = <<>> THEN Formatted(FALSE, <<>>)
    ELSE IF batch_size = 0 THEN Formatted(FALSE, <<>>)
    ELSE Formatted(TRUE, BatchesFrom(table_name, records, fields, batch_size, 0, <<>>))

\* the inputs of a call on the formatter
MaxRows == 4      \* records handed to the formatter
MaxBatch == 3     \* batch size

CancfDi == <<"c", "a", "n", "c", "f", "_", "d", "i">>
BadName == <<"b", "a", "d", " ", "n", "a", "m", "e">>
TabLe == <<"t", "a", "b", ";", "l", "e">>

TableNames == {CancfDi, BadName, <<>>}

\* a numeric, a character, a date, a memo and a logical column; values of
\* every kind, nulls, an empty memo, a number in the character column
FormatRecords ==
    {[AMOUNT |-> Num(1), STATUS |-> Text(<<"b", Quote, Backslash>>), FECHA |-> Date(1),
      NOTE |-> Text(<<"x", Newline, Quote>>), FLAG |-> Text(<<"T", Backslash>>)],
     [AMOUNT |-> Null, STATUS |-> Num(2), FECHA |-> Null,
      NOTE |-> Text(<<>>), FLAG |-> Null]}

FieldInfo ==
    <<[name |-> "AMOUNT", type |-> "N"], [name |-> "STATUS", type |-> "C"],
      [name |-> "FECHA", type |-> "D"], [name |-> "NOTE", type |-> "M"],
      [name |-> "FLAG", type |-> "L"]>>

InitFormat ==
    /\ instance = FALSE
    /\ pool = NoPool
    /\ poolsCreated = 0
    /\ last = Last("init", NoPool, "ok", FALSE, "ok", "ok", Returned(""))
    /\ prevFail = NoFail
    /\ ctrl = NoCtrl
    /\ thr = NoThreads
    /\ dbf = NoDbf
    /\ flt = NoFilter
    /\ \E t \in TableNames, m \in BOOLEAN, r \in SeqsUpTo(FormatRecords, MaxRows),
          f \in {<<>>, FieldInfo}, b \in 0..MaxBatch, pv \in BOOLEAN :
          /\ m => r = <<>>
          /\ fmt = [NoFormat EXCEPT !.table = t, !.missing = m, !.records = r,
                                    !.fields = f, !.batch_size = b, !.preview = pv,
                                    !.phase = "ready"]

\* sql_f.create_insert_statements(table_name, records, fields, batch_size)
Format ==
    /\ fmt.phase = "ready"
    /\ LET r == CreateInsertStatements(fmt.table, fmt.missing, fmt.records,
                                       fmt.fields, fmt.batch_size) IN
       fmt' = [fmt EXCEPT !.op = "create_insert_statements", !.phase = "done",
                          !.ok = r.ok, !.statements = r.statements]
    /\ UNCHANGED <<orchVars, flt, thr, dbf>>

\* process_start from the filter call to the saved preview (lines 73-96):
\* the records of the filter call, or None, go to format_to_sql; a ValueError
\* leaves process_start; the statements are saved in preview mode and handed
\* to the execution loop
Generate ==
    /\ fmt.phase = "ready"
    /\ LET r == CreateInsertStatements(fmt.table, fmt.missing, fmt.records,
                                       fmt.fields, fmt.batch_size) IN
       fmt' = [fmt EXCEPT !.op = "process_start", !.phase = "done",
                          !.ok = r.ok, !.statements = r.statements,
                          !.saved = IF r.ok /\ fmt.preview THEN r.statements ELSE <<>>,
                          !.handed = IF r.ok THEN r.statements ELSE <<>>]
    /\ UNCHANGED <<orchVars, flt, thr, dbf>>

NextFormat == Format \/ Generate

SpecFormat == InitFormat /\ [][NextFormat]_vars

\* table names handed to _validate_table_name
MaxName == 3      \* characters of a generated table name

NameChars == {"a", "1", "_", " ", ";", ".", Quote}

Names == SeqsUpTo(NameChars, MaxName) \cup {CancfDi, BadName, TabLe}

InitName ==
    /\ instance = FALSE
    /\ pool = NoPool
    /\ poolsCreated = 0
    /\ last = Last("init", NoPool, "ok", FALSE, "ok", "ok", Returned(""))
    /\ prevFail = NoFail
    /\ ctrl = NoCtrl
    /\ thr = NoThreads
    /\ dbf = NoDbf
    /\ flt = NoFilter
    /\ \E t \in Names : fmt = [NoFormat EXCEPT !.table = t, !.phase = "ready"]

\* self._validate_table_name(table_name)
ValidateName ==
    /\ fmt.phase = "ready"
    /\ fmt' = [fmt EXCEPT !.op = "_validate_table_name", !.phase = "done",
                          !.accepted = ValidateTableName(fmt.table)]
    /\ UNCHANGED <<orchVars, flt, thr, dbf>>

NextName == ValidateName

SpecName == InitName /\ [][NextName]_vars

\* texts handed to format_value, and the server setting that decides how the
\* engine reads a backslash in a literal '...' without the E prefix
MaxLen == 3       \* characters of a text value

Alphabet == {"n", Quote, Backslash, Newline, Return, Tab}

TextKinds == {"C", "M", "X"}

InitEscape ==
    /\ instance = FALSE
    /\ pool = NoPool
    /\ poolsCreated = 0
    /\ last = Last("init", NoPool, "ok", FALSE, "ok", "ok", Returned(""))
    /\ prevFail = NoFail
    /\ ctrl = NoCtrl
    /\ thr = NoThreads
    /\ dbf = NoDbf
    /\ flt = NoFilter
    /\ \E v \in SeqsUpTo(Alphabet, MaxLen) \ {<<>>}, k \in TextKinds, scs \in BOOLEAN :
          fmt = [NoFormat EXCEPT !.value = v, !.kind = k, !.phase = "ready",
                                 !.standard_conforming_strings = scs]

\* SQLFormatter.format_value(value, field_type)
FormatLiteral ==
    /\ fmt.phase = "ready"
    /\ fmt' = [fmt EXCEPT !.op = "format_value", !.phase = "done",
                          !.literal = FormatValue(Text(fmt.value), fmt.kind)]
    /\ UNCHANGED <<orchVars, flt, thr, dbf>>

NextEscape == FormatLiteral

SpecEscape == InitEscape /\ [][NextEscape]_vars

\* ------------------------------------------- execute_query from several threads
\* each thread makes one execute_query call on the one manager; the steps
\* of a call are the reads and writes of self._pool in ensure_pool_is_open,
\* _initialize_pool and get_connection, and the calls on the pool, which are
\* atomic (ThreadedConnectionPool takes its lock in getconn and putconn)
MaxThreads == 3   \* threads calling at once
MaxSize == 2      \* maxconn of the pool the threads share

Threads == 1..MaxThreads

NoConn == [p |-> 0, k |-> 0]

\* ThreadedConnectionPool(minconn, maxconn, **cfg), its connections named
FreshPool == [closed |-> FALSE, used |-> {}, idle |-> 1..min_conn, made |-> min_conn]

PoolGetConnKeepsIdle(p) ==
    IF p.closed THEN [ok |-> FALSE, k |-> 0, pool |-> p]
    ELSE IF p.idle # {}
    THEN LET k == CHOOSE x \in p.idle : \A y \in p.idle : x <= y IN
         [ok |-> TRUE, k |-> k, pool |-> [p EXCEPT !.used = @ \cup {k}]]
    ELSE IF Cardinality(p.used) >= MaxSize THEN [ok |-> FALSE, k |-> 0, pool |-> p]
    ELSE [ok |-> TRUE, k |-> p.made + 1,
          pool |-> [p EXCEPT !.made = @ + 1, !.used = @ \cup {p.made + 1}]]

\* pool.getconn(): an idle connection, else a new one while fewer than
\* maxconn are out, else PoolError
PoolGetConn(p) ==
    IF p.closed THEN [ok |-> FALSE, k |-> 0, pool |-> p]
    ELSE IF p.idle # {}
    THEN LET k == CHOOSE x \in p.idle : \A y \in p.idle : x <= y IN
         [ok |-> TRUE, k |-> k, pool |-> [p EXCEPT !.idle = @ \ {k}, !.used = @ \cup {k}]]
    ELSE IF Cardinality(p.used) >= MaxSize THEN [ok |-> FALSE, k |-> 0, pool |-> p]
    ELSE [ok |-> TRUE, k |-> p.made + 1,
          pool |-> [p EXCEPT !.made = @ + 1, !.used = @ \cup {p.made + 1}]]

\* pool.putconn(conn): PoolError for a closed pool or a connection the pool
\* did not hand out; else the connection is idle again, or closed when
\* minconn connections are idle already
PoolPutConn(p, k) ==
    IF p.closed \/ k \notin p.used THEN [ok |-> FALSE, pool |-> p]
    ELSE [ok |-> TRUE,
          pool |-> [p EXCEPT !.used = @ \ {k},
                             !.idle = IF Cardinality(@) < min_conn THEN @ \cup {k} ELSE @]]

\* pool.closeall()
PoolCloseAll(p) == [p EXCEPT !.closed = TRUE, !.used = {}, !.idle = {}]

\* the call of thread t moves on to pc, having ended as e
Moved(t, pc, e) == [thr EXCEPT !.pc[t] = pc, !.ended[t] = e]

InitThreads ==
    /\ instance = TRUE
    /\ pool = NoPool
    /\ poolsCreated = 0
    /\ last = Last("init", NoPool, "ok", FALSE, "ok", "ok", Returned(""))
    /\ prevFail = NoFail
    /\ ctrl = NoCtrl
    /\ flt = NoFilter
    /\ fmt = NoFormat
    /\ dbf = NoDbf
    /\ \E open \in BOOLEAN :
          thr = [pc |-> [t \in Threads |-> "start"],
                 got |-> [t \in Threads |-> NoConn],
                 ended |-> [t \in Threads |-> "none"],
                 handle |-> IF open THEN 1 ELSE 0,
                 pools |-> IF open THEN <<FreshPool>> ELSE <<>>,
                 startedOpen |-> open]

\* line 62: if self._pool is None or (hasattr(self._pool, '_closed') and ...)
TEnsure(t) ==
    /\ thr.pc[t] = "start"
    /\ thr' = Moved(t, IF thr.handle = 0 THEN "init" ELSE "guard", "none")
    /\ UNCHANGED <<orchVars, flt, fmt, dbf>>

\* lines 29-34: a pool that is held and not marked closed is kept
TInitCheck(t) ==
    /\ thr.pc[t] = "init"
    /\ thr' = Moved(t, IF thr.handle = 0 THEN "create" ELSE "guard", "none")
    /\ UNCHANGED <<orchVars, flt, fmt, dbf>>

TCreateClosesOld(t, connect) ==
    /\ thr.pc[t] = "create"
    /\ IF connect = "ok"
       THEN thr' = [Moved(t, "guard", "none") EXCEPT
                       !.pools = Append([k \in 1..Len(thr.pools) |-> PoolCloseAll(thr.pools[k])],
                                        FreshPool),
                       !.handle = Len(thr.pools) + 1]
       ELSE thr' = [Moved(t, "guard", "none") EXCEPT !.handle = 0]
    /\ UNCHANGED <<orchVars, flt, fmt, dbf>>

\* lines 36-55: self._pool = ThreadedConnectionPool(...), or None when the
\* connection fails
TCreate(t, connect) ==
    /\ thr.pc[t] = "create"
    /\ IF connect = "ok"
       THEN thr' = [Moved(t, "guard", "none") EXCEPT
                       !.pools = Append(thr.pools, FreshPool),
                       !.handle = Len(thr.pools) + 1]
       ELSE thr' = [Moved(t, "guard", "none") EXCEPT !.handle = 0]
    /\ UNCHANGED <<orchVars, flt, fmt, dbf>>

\* lines 75-76: ConnectionError when no pool is held; execute_query returns None
TGuard(t) ==
    /\ thr.pc[t] = "guard"
    /\ thr' = IF thr.handle = 0 THEN Moved(t, "done", "returned")
              ELSE Moved(t, "getconn", "none")
    /\ UNCHANGED <<orchVars, flt, fmt, dbf>>

\* line 80: conn = self._pool.getconn(); an exception of it leaves execute_query
TGetConn(t) ==
    /\ thr.pc[t] = "getconn"
    /\ IF thr.handle = 0
       THEN thr' = Moved(t, "done", "raised")
       ELSE LET g == PoolGetConn(thr.pools[thr.handle]) IN
            IF ~g.ok THEN thr' = Moved(t, "done", "raised")
            ELSE thr' = [Moved(t, "held", "none") EXCEPT
                            !.pools[thr.handle] = g.pool,
                            !.got[t] = [p |-> thr.handle, k |-> g.k]]
    /\ UNCHANGED <<orchVars, flt, fmt, dbf>>

\* lines 99-141, then line 86: the statement runs, self._pool.putconn(conn)
TPutConn(t) ==
    /\ thr.pc[t] = "held"
    /\ IF thr.handle = 0
       THEN thr' = Moved(t, "done", "raised")
       ELSE LET r == PoolPutConn(thr.pools[thr.handle],
                                 IF thr.got[t].p = thr.handle THEN thr.got[t].k ELSE 0) IN
            IF ~r.ok THEN thr' = Moved(t, "done", "raised")
            ELSE thr' = [Moved(t, "done", "returned") EXCEPT
                            !.pools[thr.handle] = r.pool,
                            !.got[t] = NoConn]
    /\ UNCHANGED <<orchVars, flt, fmt, dbf>>

\* close_pool() once every call has ended (lines 150-151)
TClosePool ==
    /\ \A t \in Threads : thr.pc[t] = "done"
    /\ thr.handle # 0
    /\ ~thr.pools[thr.handle].closed
    /\ thr' = [thr EXCEPT !.pools[thr.handle] = PoolCloseAll(@)]
    /\ UNCHANGED <<orchVars, flt, fmt, dbf>>

NextThreads ==
    \/ \E t \in Threads : TEnsure(t)
    \/ \E t \in Threads : TInitCheck(t)
    \/ \E t \in Threads, connect \in {"ok", "other"} : TCreate(t, connect)
    \/ \E t \in Threads : TGuard(t)
    \/ \E t \in Threads : TGetConn(t)
    \/ \E t \in Threads : TPutConn(t)
    \/ TClosePool

SpecThreads == InitThreads /\ [][NextThreads]_vars

\* ------------------------------------------- the DBF controller and its reader
MaxFile == 3          \* records in a DBF file
RecordsCap == 30000   \* the most records a reader is meant to load

\* what a file path given to set_dbf_file leads to: no path at all, no file,
\* a file that cannot be opened as a DBF table (or whose memo file cannot),
\* or a table of total records
Files == {[kind |-> k, total |-> 0] : k \in {"none", "missing", "invalid"}}
         \cup {[kind |-> "dbf", total |-> n] : n \in 0..MaxFile}

\* list(dbf): the records of a table in source order
FileRecords(total) == [i \in 1..total |-> [AMOUNT |-> Num(i), FECHA |-> Null]]

Larger(a, b) == IF a >= b THEN a ELSE b

\* records[:n]
SliceTo(s, n) ==
    SubSeq(s, 1, IF n < 0 THEN Larger(Len(s) + n, 0) ELSE Min(n, Len(s)))

\* records[n:]
SliceFrom(s, n) ==
    SubSeq(s, (IF n < 0 THEN Larger(Len(s) + n, 0) ELSE Min(n, Len(s))) + 1, Len(s))

\* DBFReader.__init__, line 15
EffectiveMax(max_records) ==
    IF ~max_records.none /\ max_records.v # 0 /\ max_records.v < RecordsCap
    THEN max_records.v ELSE RecordsCap

DBFReaderOf(total, max_records) ==
    [held |-> TRUE, total |-> total, max_records |-> EffectiveMax(max_records)]

\* what a retrieval gives: None, or a list of records
NoneResult == [isNone |-> TRUE, out |-> <<>>]
ListResult(out) == [isNone |-> FALSE, out |-> out]

\* DBFReader.get_N_records(limit)
GetNRecords(r, limit) ==
    LET records == FileRecords(r.total)
        l0 == IF limit.none THEN r.max_records ELSE limit.v
        l1 == Min(l0, Len(records))
        l2 == Min(l1, r.max_records) IN
    ListResult(SliceTo(records, l2))

\* DBFReader.get_last_n_records(n): min(None, len(records)) raises TypeError,
\* which the except turns into None
GetLastNRecords(r, n) ==
    IF n.none THEN NoneResult
    ELSE LET records == FileRecords(r.total)
             n1 == Min(n.v, Len(records))
             n2 == Min(n1, r.max_records) IN
         ListResult(SliceFrom(records, 0 - n2))

\* DBFReader.get_records_with_fields(limit): the records of the pair
GetRecordsWithFields(r, limit) == GetNRecords(r, limit)

\* DBFReader.get_total_records
GetTotalRecords(r) == r.total

\* DBFReader.get_field_info: one entry per field of the table
GetFieldInfo(r) == FieldNames

\* DBFController.set_dbf_file(file_path, max_records): the reader held
\* afterwards and the value returned
SetDbfFile(reader, file, max_records) ==
    CASE file.kind = "none"    -> [reader |-> NoReader, flag |-> FALSE]
      [] file.kind = "missing" -> [reader |-> reader, flag |-> FALSE]
      [] file.kind = "invalid" -> [reader |-> NoReader, flag |-> FALSE]
      [] OTHER -> [reader |-> DBFReaderOf(file.total, max_records), flag |-> TRUE]

\* DBFController.get_records(limit)
GetRecords(reader, limit) ==
    IF ~reader.held THEN NoneResult ELSE GetNRecords(reader, limit)

\* DBFController.get_last_records(limit)
GetLastRecords(reader, limit) ==
    IF ~reader.held THEN NoneResult ELSE GetLastNRecords(reader, limit)

\* DBFController.get_record_count
GetRecordCount(reader) == IF ~reader.held THEN 0 ELSE GetTotalRecords(reader)

\* DBFController.get_field_info
ControllerGetFieldInfo(reader) == IF ~reader.held THEN <<>> ELSE GetFieldInfo(reader)

\* DBFController.get_filtered_records(conditions, limit)
ControllerGetFilteredRecords(reader, conds, limit) ==
    IF ~reader.held THEN NoneResult
    ELSE LET r == GetFilteredRecords(FileRecords(reader.total), conds,
                                     IF limit.none THEN NoLimit ELSE limit.v) IN
         IF r.ok THEN ListResult(r.out) ELSE NoneResult

\* the arguments of the calls
MaxArgs == {None, Some(RecordsCap - 1), Some(RecordsCap), Some(RecordsCap + 1)}
           \cup {Some(k) : k \in (0 - 1)..MaxFile}

LimitArgs == {None} \cup {Some(k) : k \in (0 - 1)..(MaxFile + 1)}

FilterLimits == {None} \cup {Some(k) : k \in 0..MaxFile}

FilterConds == {<<>>, <<Cond("AMOUNT", ">=", Num(2), Absent)>>,
                <<Cond("AMOUNT", "like", Num(2), Absent)>>}

\* the call op(arg) on a controller holding reader has ended
Called(op, arg, reader) ==
    [NoDbf EXCEPT !.reader = reader, !.before = dbf.reader, !.op = op, !.arg = arg]

InitDbf ==
    /\ instance = FALSE
    /\ pool = NoPool
    /\ poolsCreated = 0
    /\ last = Last("init", NoPool, "ok", FALSE, "ok", "ok", Returned(""))
    /\ prevFail = NoFail
    /\ ctrl = NoCtrl
    /\ thr = NoThreads
    /\ flt = NoFilter
    /\ fmt = NoFormat
    /\ dbf = NoDbf

DbfSetFile(file, max_records) ==
    /\ LET r == SetDbfFile(dbf.reader, file, max_records) IN
       dbf' = [Called("set_dbf_file", max_records, r.reader) EXCEPT !.flag = r.flag]
    /\ UNCHANGED <<orchVars, flt, fmt, thr>>

DbfGetRecords(limit) ==
    /\ LET r == GetRecords(dbf.reader, limit) IN
       dbf' = [Called("get_records", limit, dbf.reader) EXCEPT
                  !.isNone = r.isNone, !.out = r.out]
    /\ UNCHANGED <<orchVars, flt, fmt, thr>>

DbfGetLastRecords(limit) ==
    /\ LET r == GetLastRecords(dbf.reader, limit) IN
       dbf' = [Called("get_last_records", limit, dbf.reader) EXCEPT
                  !.isNone = r.isNone, !.out = r.out]
    /\ UNCHANGED <<orchVars, flt, fmt, thr>>

DbfGetRecordCount ==
    /\ dbf' = [Called("get_record_count", None, dbf.reader) EXCEPT
                  !.count = GetRecordCount(dbf.reader)]
    /\ UNCHANGED <<orchVars, flt, fmt, thr>>

DbfGetFieldInfo ==
    /\ dbf' = [Called("get_field_info", None, dbf.reader) EXCEPT
                  !.fields = ControllerGetFieldInfo(dbf.reader)]
    /\ UNCHANGED <<orchVars, flt, fmt, thr>>

DbfGetFilteredRecords(conds, limit) ==
    /\ LET r == ControllerGetFilteredRecords(dbf.reader, conds, limit) IN
       dbf' = [Called("get_filtered_records", limit, dbf.reader) EXCEPT
                  !.isNone = r.isNone, !.out = r.out, !.conds = conds]
    /\ UNCHANGED <<orchVars, flt, fmt, thr>>

\* controller.dbf_reader.get_records_with_fields(limit), a reader being held
DbfGetRecordsWithFields(limit) ==
    /\ dbf.reader.held
    /\ LET r == GetRecordsWithFields(dbf.reader, limit) IN
       dbf' = [Called("get_records_with_fields", limit, dbf.reader) EXCEPT
                  !.isNone = r.isNone, !.out = r.out, !.fields = GetFieldInfo(dbf.reader)]
    /\ UNCHANGED <<orchVars, flt, fmt, thr>>

NextDbf ==
    \/ \E file \in Files, max_records \in MaxArgs : DbfSetFile(file, max_records)
    \/ \E limit \in LimitArgs : DbfGetRecords(limit)
    \/ \E limit \in LimitArgs : DbfGetLastRecords(limit)
    \/ DbfGetRecordCount
    \/ DbfGetFieldInfo
    \/ \E conds \in FilterConds, limit \in FilterLimits : DbfGetFilteredRecords(conds, limit)
    \/ \E limit \in LimitArgs : DbfGetRecordsWithFields(limit)

SpecDbf == InitDbf /\ [][NextDbf]_vars

\* ------------------------------------------------------------------ claims
Count(seq, e) == Cardinality({k \in 1..Len(seq) : seq[k] = e})

Before(seq, a, b) == \E k, m \in 1..Len(seq) : k < m /\ seq[k] = a /\ seq[m] = b

ExecuteEnded == last.op = "execute_query"

\* C1: every execute_query call leaves the number of checked-out connections
\* as it found it; it checks out at most one connection and checks it in
\* again, and exactly one on every path on which the statement was run
\* (row-set, row count, classified failure, exception propagating).
C1_ConnectionReturned ==
    ExecuteEnded =>
        /\ pool.used = last.before.used
        /\ Count(last.events, "getconn") = Count(last.events, "putconn")
        /\ Count(last.events, "getconn") <= 1
        /\ "getconn" \in { last.events[k] : k \in 1..Len(last.events) }
               => Before(last.events, "getconn", "putconn")
        /\ (last.result \in {"rows", "rowcount"} \/ last.kind \in Classifications
            \/ Count(last.events, "execute") > 0)
               => Count(last.events, "getconn") = 1

\* an exception left execute_query while a connection was checked out
C1_Witness ==
    /\ ExecuteEnded
    /\ last.outcome = "raised"
    /\ Count(last.events, "getconn") = 1
    /\ pool.used = 0

\* C2: a statement that ends in a classified failure is rolled back, and the
\* rollback comes before the connection goes back to the pool.
C2_RollbackBeforeRelease ==
    (ExecuteEnded /\ last.kind \in Classifications) =>
        Before(last.events, "rollback", "putconn")

C2_Witness ==
    /\ ExecuteEnded
    /\ last.kind = "unexpected_error"
    /\ last.outcome = "returned"

\* C5: ensure_pool_is_open on an OPEN pool changes nothing (same handle, no
\* pool constructed); the handle changes only when it was missing or marked
\* closed.
C5_EnsureIdempotent ==
    last.op = "ensure" =>
        /\ IsOpen(last.before) => pool = last.before
        /\ pool # last.before => (~last.before.exists \/ MarkedClosed(last.before))

C5_Witness ==
    /\ last.op = "ensure"
    /\ IsOpen(last.before)
    /\ IsOpen(pool)

\* C6: execute_query on a pool that is CLOSED (closed by close_pool, or never
\* established), with the endpoint reachable, reinitializes the pool (OPEN,
\* fresh handle) and runs the statement on a connection of the new pool.
C6_ClosedPoolReinitialized ==
    (ExecuteEnded /\ ~IsOpen(last.before) /\ last.connect = "ok") =>
        /\ IsOpen(pool)
        /\ pool.id # last.before.id
        /\ Count(last.events, "execute") = 1

\* C7: when the pool cannot be established, construction, ensure_pool_is_open
\* and execute_query do not raise, the pool is left CLOSED, and execute_query
\* returns a failure value.
C7_EstablishFailureNeverRaises ==
    (/\ last.op \in {"construct", "ensure", "execute_query"}
     /\ ~IsOpen(last.before)
     /\ last.connect # "ok") =>
        /\ last.outcome = "returned"
        /\ ~IsOpen(pool)
        /\ ExecuteEnded => last.result = "None"

\* C8: execute_query, ensure_pool_is_open and a repeated construction leave an
\* OPEN pool OPEN with the same handle; close_pool closes it and releases
\* every connection it holds.
C8_OpenUntilClosePool ==
    /\ (last.op \in {"construct", "ensure", "execute_query"} /\ IsOpen(last.before))
           => (IsOpen(pool) /\ pool.id = last.before.id)
    /\ (last.op = "close_pool" /\ IsOpen(last.before))
           => (pool.exists /\ pool.closed /\ pool.used = 0 /\ pool.idle = 0)

C8_Witness ==
    /\ ExecuteEnded
    /\ IsOpen(last.before)
    /\ last.kind \in Classifications
    /\ IsOpen(pool)

C3_EachStatementOnce ==
    (ctrl.done = "completed" /\ ctrl.exec /\ ctrl.n >= 1) =>
        ctrl.executed = [k \in 1..ctrl.n |-> k]

\* C4: when a run of main has ended, no pool opened during the run is OPEN.
C4_PoolClosedAtRunEnd ==
    ctrl.mainEnded => ~(IsOpen(pool) /\ pool.id > ctrl.createdAtStart)

\* main ended after an exception left the loop; the pool it opened is closed
C4_Witness ==
    /\ ctrl.mainEnded
    /\ ctrl.raisedAt > 0
    /\ pool.exists /\ pool.closed
    /\ pool.id > ctrl.createdAtStart

\* C10: whatever the operator, no record of the result has a null value on a
\* field that a condition names.
C10_NullNeverMatches ==
    (flt.phase = "done" /\ flt.ok) =>
        \A k \in 1..Len(flt.out), j \in 1..Len(flt.conds) :
            flt.out[k][flt.conds[j].field] # Null

\* a record passes the first condition and is null on the field of the
\* second, and the call returns other records
C10_Witness ==
    /\ flt.phase = "done" /\ flt.ok
    /\ Len(flt.conds) = 2
    /\ Len(flt.out) >= 1
    /\ \E k \in 1..Len(flt.records) :
          /\ flt.records[k][flt.conds[2].field] = Null
          /\ EvalCondition(flt.records[k], flt.conds[1]).res = "pass"

\* C11: a between condition matches a non-null record value exactly when
\* value <= record value <= value2, both ends included; with value > value2
\* nothing matches.
C11_BetweenInclusive ==
    flt.phase = "done" =>
        LET c == flt.conds[1]
            rv == flt.records[1][c.field] IN
        /\ flt.ok
        /\ rv # Null =>
              (flt.out = flt.records <=> (c.value.v <= rv.v /\ rv.v <= c.value2.v))
        /\ c.value.v > c.value2.v => flt.out = <<>>

\* a date equal to the upper bound, given as text, matches
C11_Witness ==
    /\ flt.phase = "done"
    /\ flt.conds[1] = Cond("FECHA", "between", Str(1), Str(2))
    /\ flt.records[1].FECHA = Date(2)
    /\ flt.out = flt.records

\* the records of the call that satisfy every condition, in source order
AllMatches ==
    LET Test(r) == MatchesConditions(r, flt.conds).res = "true" IN
    SelectSeq(flt.records, Test)

\* the position in the file of the n-th matching record
PositionOfMatch(n) ==
    CHOOSE k \in 1..Len(flt.records) :
        /\ MatchesConditions(flt.records[k], flt.conds).res = "true"
        /\ Cardinality({j \in 1..k :
               MatchesConditions(flt.records[j], flt.conds).res = "true"}) = n

\* C12 as claimed: with limit L and at least L matching records the call
\* returns the first L matching records in source order and reads no record
\* after the L-th match; without a limit it returns every matching record
\* in source order.
C12_FirstLMatches ==
    (flt.phase = "done" /\ flt.ok) =>
        /\ flt.limit = NoLimit => flt.out = AllMatches
        /\ (flt.limit # NoLimit /\ Len(AllMatches) >= flt.limit) =>
              /\ flt.out = SubSeq(AllMatches, 1, flt.limit)
              /\ flt.visited = IF flt.limit = 0 THEN 0 ELSE PositionOfMatch(flt.limit)

\* a condition that names a field the file does not have, an operator outside
\* the six, or a between without value2
Offending(c) ==
    LET operator == IF Has(c, "operator") THEN c.operator ELSE "=" IN
    \/ Has(c, "field") /\ c.field \notin {"AMOUNT", "FECHA"}
    \/ operator \notin {"=", ">", "<", ">=", "<=", "between"}
    \/ operator = "between" /\ ~Has(c, "value2")

\* C13: a filter call through the controller whose list holds an offending
\* condition yields the error outcome and no list of records, whatever the
\* records and the other conditions are.
C13_OffendingConditionFailsCall ==
    (flt.phase = "done" /\ \E j \in 1..Len(flt.conds) : Offending(flt.conds[j])) =>
        (~flt.ok /\ flt.out = <<>>)

\* an unknown operator after a condition that a record of the file satisfies
C13_Witness ==
    /\ flt.phase = "done"
    /\ flt.conds = <<Cond("AMOUNT", "=", Num(1), Absent),
                     Cond("AMOUNT", "like", Num(1), Absent)>>
    /\ \E k \in 1..Len(flt.records) : flt.records[k].AMOUNT = Num(1)
    /\ ~flt.ok

\* the literal is text that is not a YYYY-MM-DD date
Unparseable(x) == x.t = "str" /\ ~ParseDate(x).ok

\* the call reaches condition j on a record whose value on the condition's
\* field is a date, and the condition's value, or its value2 for a between,
\* does not parse
UnparseableDateReached(j) ==
    LET c == flt.conds[j] IN
    /\ \A i \in 1..Len(flt.conds) : ~Offending(flt.conds[i])
    /\ \A i \in 1..Len(flt.conds) : Has(flt.conds[i], "field") /\ Has(flt.conds[i], "value")
    /\ \E k \in 1..Len(flt.records) : flt.records[k][c.field].t = "date"
    /\ \/ Unparseable(c.value)
       \/ Has(c, "operator") /\ c.operator = "between" /\ Unparseable(c.value2)

\* C14 as claimed: a date literal that cannot be parsed makes the whole call
\* fail; no list of records comes back.
C14_UnparseableDateFailsCall ==
    (flt.phase = "done" /\ \E j \in 1..Len(flt.conds) : UnparseableDateReached(j)) =>
        ~flt.ok

\* the orders in which a list of n conditions can be written
Perms(n) == {f \in [1..n -> 1..n] : \A a, b \in 1..n : f[a] = f[b] => a = b}

Permuted(conds, f) == [k \in 1..Len(conds) |-> conds[f[k]]]

\* C15 as claimed: without a limit the result holds exactly the records that
\* pass every condition, and the call gives the same outcome (the same list
\* of records, or the error outcome) for every order of the condition list.
C15_OrderIndependent ==
    flt.phase = "done" =>
        /\ (flt.ok /\ flt.limit = NoLimit) =>
              \A k \in 1..Len(flt.records) :
                  (\E m \in 1..Len(flt.out) : flt.out[m] = flt.records[k])
                  <=> \A j \in 1..Len(flt.conds) :
                         EvalCondition(flt.records[k], flt.conds[j]).res = "pass"
        /\ \A f \in Perms(Len(flt.conds)) :
              LET r == GetFilteredRecords(flt.records, Permuted(flt.conds, f), flt.limit) IN
              r.ok = flt.ok /\ r.out = flt.out

\* a condition that the load-filters pass is said to keep
KeptByLoad(c) ==
    LET operator == IF c.operator = AbsentName THEN "=" ELSE c.operator IN
    /\ c # NotADict
    /\ c.field # AbsentName /\ c.value # Absent
    /\ operator \in {"=", ">", "<", ">=", "<=", "between"}
    /\ operator = "between" => c.value2 # Absent

\* C16: validate_filter_conditions returns, without failing, the conditions
\* of its input that are valid, in input order; an invalid condition is left
\* out and the conditions around it are kept.
C16_LoadKeepsValidConditions ==
    flt.phase = "done" =>
        /\ flt.ok
        /\ flt.out = SelectSeq(flt.conds, KeptByLoad)

\* an invalid condition between two valid ones
C16_Witness ==
    /\ flt.phase = "done"
    /\ flt.conds = <<Cond("AMOUNT", "between", Num(1), Num(2)),
                     Cond("AMOUNT", "between", Num(1), Absent),
                     Cond("FECHA", ">=", Str(1), Absent)>>
    /\ flt.out = <<flt.conds[1], flt.conds[3]>>

\* the rows of a list of statements, one after the other
RECURSIVE RowsOf(_)
RowsOf(statements) ==
    IF statements = <<>> THEN <<>>
    ELSE Head(statements).rows \o RowsOf(Tail(statements))

\* C17: on N >= 1 records and a batch size B >= 1, a valid table name and a
\* field list, create_insert_statements gives ceil(N / B) statements; each
\* has B rows, the last one the remaining 1..B, and the rows of the
\* statements in order are the rows of the input records in input order.
C17_BatchingExhaustive ==
    (/\ fmt.phase = "done"
     /\ fmt.table = CancfDi /\ fmt.fields # <<>> /\ ~fmt.missing
     /\ Len(fmt.records) >= 1 /\ fmt.batch_size >= 1) =>
        LET N == Len(fmt.records)
            B == fmt.batch_size
            st == fmt.statements IN
        /\ fmt.ok
        /\ Len(st) = (N + B - 1) \div B
        /\ \A k \in 1..Len(st) :
              /\ Len(st[k].rows) >= 1 /\ Len(st[k].rows) <= B
              /\ k < Len(st) => Len(st[k].rows) = B
        /\ RowsOf(st) = [k \in 1..N |-> RenderRow(fmt.records[k], fmt.fields)]

\* four records in batches of three: a full statement and one with the rest
C17_Witness ==
    /\ fmt.phase = "done" /\ fmt.ok
    /\ Len(fmt.records) = 4 /\ fmt.batch_size = 3
    /\ fmt.records[1] = fmt.records[3] /\ fmt.records[1] # fmt.records[2]
    /\ Len(fmt.statements) = 2
    /\ Len(fmt.statements[2].rows) = 1

\* a character of the name that is neither a letter, a digit nor an underscore
HasForeignChar(name) ==
    \E k \in 1..Len(name) : name[k] \in {" ", ";", ".", Quote}

\* C18: with a table name that is not an identifier, no field, no record or
\* records missing, create_insert_statements fails and gives no statement;
\* process_start then saves nothing and hands nothing to execution.
C18_InvalidInputNoStatement ==
    (/\ fmt.phase = "done"
     /\ \/ HasForeignChar(fmt.table) \/ fmt.table = <<>>
        \/ fmt.fields = <<>> \/ fmt.records = <<>> \/ fmt.missing) =>
        /\ ~fmt.ok
        /\ fmt.statements = <<>>
        /\ fmt.saved = <<>> /\ fmt.handed = <<>>

\* the filter call failed, the preview is on: process_start saves nothing
C18_Witness ==
    /\ fmt.phase = "done"
    /\ fmt.op = "process_start"
    /\ fmt.missing /\ fmt.preview
    /\ fmt.table = CancfDi /\ fmt.fields # <<>>
    /\ ~fmt.ok /\ fmt.saved = <<>>

\* C19: _validate_table_name accepts no name with a character other than a
\* letter, a digit or an underscore; it rejects 'bad name' and 'tab;le' and
\* accepts 'cancf_di'.
C19_IdentifierCharsOnly ==
    fmt.phase = "done" =>
        /\ fmt.accepted => ~HasForeignChar(fmt.table)
        /\ fmt.table \in {BadName, TabLe} => ~fmt.accepted
        /\ fmt.table = CancfDi => fmt.accepted

C19_Witness ==
    /\ fmt.phase = "done"
    /\ fmt.table = <<"a", "_", "1">>
    /\ fmt.accepted

\* how PostgreSQL reads the body of a string literal from position i on: two
\* quotes are a quote, one quote ends the literal; where backslash escapes
\* are read (E'...', and '...' with standard_conforming_strings off) a
\* backslash and the next character are one character
Unescape(c) ==
    CASE c = "n" -> Newline
      [] c = "r" -> Return
      [] c = "t" -> Tab
      [] OTHER -> c

RECURSIVE Scan(_, _, _, _)
Scan(lit, i, escapes, acc) ==
    IF i > Len(lit) THEN [ok |-> FALSE, value |-> acc, end |-> i]
    ELSE IF lit[i] = Quote
    THEN IF i < Len(lit) /\ lit[i + 1] = Quote
         THEN Scan(lit, i + 2, escapes, Append(acc, Quote))
         ELSE [ok |-> TRUE, value |-> acc, end |-> i]
    ELSE IF lit[i] = Backslash /\ escapes
    THEN IF i = Len(lit) THEN [ok |-> FALSE, value |-> acc, end |-> i]
         ELSE Scan(lit, i + 2, escapes, Append(acc, Unescape(lit[i + 1])))
    ELSE Scan(lit, i + 1, escapes, Append(acc, lit[i]))

ParseLiteral(lit, scs) ==
    IF lit[1] = "E" THEN Scan(lit, 3, TRUE, <<>>) ELSE Scan(lit, 2, ~scs, <<>>)

\* C20 as claimed: the literal that format_value gives for a non-empty text
\* (CHARACTER, MEMO, unknown kind) is read back by the engine as the text
\* itself, and ends at its last quote.
C20_EscapingRoundTrips ==
    fmt.phase = "done" =>
        LET p == ParseLiteral(fmt.literal, fmt.standard_conforming_strings) IN
        /\ p.ok /\ p.end = Len(fmt.literal)
        /\ p.value = fmt.value

\* the reference rendering of a value of a field of the declared kind
RECURSIVE RefEscaped(_, _)
RefEscaped(s, memo) ==
    LET One(c) == IF c = Quote THEN <<Quote, Quote>>
                  ELSE IF c = Backslash THEN <<Backslash, Backslash>>
                  ELSE IF memo /\ c = Newline THEN <<Backslash, "n">>
                  ELSE IF memo /\ c = Return THEN <<Backslash, "r">>
                  ELSE IF memo /\ c = Tab THEN <<Backslash, "t">>
                  ELSE <<c>> IN
    IF s = <<>> THEN <<>> ELSE One(Head(s)) \o RefEscaped(Tail(s), memo)

RefValue(value, kind) ==
    IF value.t = "null" THEN <<"N", "U", "L", "L">>
    ELSE CASE kind = "N" -> StrOf(value)
           [] kind = "D" -> <<Quote>> \o StrOf(value) \o <<Quote>>
           [] kind = "M" -> IF StrOf(value) = <<>> THEN <<"N", "U", "L", "L">>
                            ELSE <<"E", Quote>> \o RefEscaped(StrOf(value), TRUE) \o <<Quote>>
           [] OTHER -> <<Quote>> \o RefEscaped(StrOf(value), FALSE) \o <<Quote>>

RefRow(record, fields) ==
    <<"(">> \o Join([k \in 1..Len(fields) |-> RefValue(record[fields[k].name], fields[k].type)], ",")
           \o <<")">>

RefStatement(table, fields, records) ==
    <<"INSERT INTO ">> \o table \o <<" (">>
    \o Join([k \in 1..Len(fields) |-> <<fields[k].name>>], ",")
    \o <<") VALUES ">>
    \o Join([k \in 1..Len(records) |-> RefRow(records[k], fields)], ",")

\* C21: the text of the k-th statement is the reference rendering of the
\* k-th batch of records, every value rendered by the declared kind of its
\* field; every statement has the column list of fields.
C21_ReferenceRendering ==
    (fmt.phase = "done" /\ fmt.ok) =>
        LET N == Len(fmt.records)
            B == fmt.batch_size IN
        \A k \in 1..Len(fmt.statements) :
            /\ fmt.statements[k].text =
                   RefStatement(fmt.table, fmt.fields,
                                SubSeq(fmt.records, (k - 1) * B + 1,
                                       IF k * B < N THEN k * B ELSE N))
            /\ fmt.statements[k].columns = <<"AMOUNT", "STATUS", "FECHA", "NOTE", "FLAG">>

\* a statement of two rows: every kind with a value, and nulls, an empty
\* memo and a number in the character column
C21_Witness ==
    /\ fmt.phase = "done" /\ fmt.ok
    /\ Len(fmt.statements) = 2
    /\ Len(fmt.statements[1].rows) = 2
    /\ fmt.records[1].AMOUNT = Num(1)
    /\ fmt.records[2].AMOUNT = Null

\* C22: with one caller at a time, a pool is constructed only while the
\* manager holds no open pool (the handle is missing or closed), so at most
\* one pool is active; the manager, once constructed, stays the same, and a
\* further construction constructs no pool.
C22_SinglePool ==
    [][/\ poolsCreated' # poolsCreated =>
             /\ ~IsOpen(pool)
             /\ poolsCreated' = poolsCreated + 1
             /\ pool'.exists /\ pool'.id = poolsCreated'
       /\ pool'.id # pool.id => ~IsOpen(pool)
       /\ instance => instance'
       /\ (instance /\ last'.op = "construct") =>
             (pool' = pool /\ poolsCreated' = poolsCreated)]_vars

\* DBConnection constructed again while its pool is open: the same pool
C22_Witness ==
    /\ last.op = "construct"
    /\ IsOpen(last.before)
    /\ pool = last.before
    /\ poolsCreated = 1

\* the trace of the call up to, and without, its putconn
UntilPut(events) ==
    SubSeq(events, 1, (CHOOSE k \in 1..Len(events) : events[k] = "putconn") - 1)

\* C23: when an execute_query that ran its statement returns, the connection
\* is back in the pool with no transaction in progress (or was closed); a
\* write was committed and a failure rolled back while the caller held the
\* connection, and the transaction a read began is over as well.
C23_NoTransactionLeftOpen ==
    (/\ ExecuteEnded /\ last.outcome = "returned"
     /\ Count(last.events, "execute") = 1) =>
        /\ Count(last.events, "putconn") = 1
        /\ TxnAfter(last.events) \in {"IDLE", "CLOSED"}
        /\ last.result = "rowcount" => TxnAfter(UntilPut(last.events)) = "IDLE"
                                        /\ Count(last.events, "commit") = 1
        /\ last.kind \in Classifications => TxnAfter(UntilPut(last.events)) = "IDLE"
                                             /\ Count(last.events, "rollback") = 1

\* a read returned its rows: nothing was committed or rolled back by the
\* call, and the connection is idle in the pool
C23_Witness ==
    /\ ExecuteEnded /\ last.outcome = "returned"
    /\ last.result = "rows"
    /\ TxnAfter(UntilPut(last.events)) = "INTRANS"
    /\ TxnAfter(last.events) = "IDLE"
    /\ pool.idle = 1

\* the connections that threads hold
Holding(t) == thr.pc[t] = "held"

\* C24: threads calling execute_query at once on one open pool of maxconn
\* MaxSize: never more than MaxSize connections are checked out, no two
\* threads hold the same connection, a held connection is checked out and
\* not idle, and a call that has ended has checked its connection in.
C24_BoundedCheckout ==
    thr.startedOpen =>
        LET p == thr.pools[1] IN
        /\ thr.handle = 1 /\ Len(thr.pools) = 1
        /\ Cardinality(p.used) <= MaxSize
        /\ \A t, u \in Threads :
              (t # u /\ Holding(t) /\ Holding(u)) => thr.got[t] # thr.got[u]
        /\ \A t \in Threads :
              /\ Holding(t) => (thr.got[t].k \in p.used /\ thr.got[t].k \notin p.idle)
              /\ thr.pc[t] = "done" => thr.got[t] = NoConn
        /\ p.used = {thr.got[t].k : t \in {u \in Threads : Holding(u)}}

\* MaxSize threads hold a connection each while another was refused one
C24_Witness ==
    /\ thr.startedOpen
    /\ Cardinality({t \in Threads : Holding(t)}) = MaxSize
    /\ \E t \in Threads : thr.pc[t] = "done" /\ thr.ended[t] = "raised"

\* the pools that were established and are no longer the manager's pool
Overwritten == {k \in 1..Len(thr.pools) : k # thr.handle}

\* C25: nothing orders the closed check and the assignment of the pool
\* between threads: each thread that passed the check establishes a pool of
\* its own, and a pool whose handle was overwritten is out of reach of
\* close_pool, so it is never closed and its connections stay open.
C25_OverwrittenPoolNeverClosed ==
    /\ Len(thr.pools) <= Cardinality(Threads)
    /\ \A k \in Overwritten :
          /\ ~thr.pools[k].closed
          /\ thr.pools[k].idle \cup thr.pools[k].used # {}

\* two threads passed the check on the missing pool and each established a
\* pool; after close_pool the first pool is still open
C25_Witness ==
    /\ ~thr.startedOpen
    /\ Len(thr.pools) >= 2
    /\ thr.handle = 2
    /\ thr.pools[2].closed
    /\ ~thr.pools[1].closed /\ thr.pools[1].idle # {}

\* C26: process_start on a controller on which set_config was never called
\* raises (ValueError, line 64) before anything else: the file is not looked
\* up or read, no statement is generated, saved or executed, and no
\* database connection or pool is created.
C26_UnconfiguredRunDoesNothing ==
    (ctrl.exists /\ ~ctrl.initialized /\ ctrl.done # "none") =>
        /\ ctrl.done = "raised"
        /\ ctrl.steps = {}
        /\ ctrl.n = 0 /\ ctrl.executed = <<>> /\ ctrl.failed = {}
        /\ ~ctrl.db_connection
        /\ poolsCreated = ctrl.createdAtStart
        /\ ctrl.phase = "idle"

\* an unconfigured controller whose process_start was called, created after
\* an earlier run had established a pool
C26_Witness ==
    /\ ctrl.exists /\ ~ctrl.initialized /\ ctrl.done = "raised"
    /\ ctrl.steps = {}
    /\ poolsCreated > 0

\* C27 as claimed: a filter call leaves the caller's condition list as it
\* was, every condition with the same field, operator, value and value2.
C27_ConditionsUnchanged ==
    flt.phase = "done" => flt.after = flt.conds

\* the retrievals that give a list of records
Retrievals == {"get_records", "get_last_records", "get_filtered_records",
               "get_records_with_fields"}

\* C28 as claimed: for every n >= 0, get_last_records(n) gives exactly the
\* last min(n, total, max_records) records of the file, in source order.
C28_LastRecordsExact ==
    (dbf.op = "get_last_records" /\ dbf.reader.held /\ ~dbf.arg.none /\ dbf.arg.v >= 0) =>
        LET records == FileRecords(dbf.reader.total)
            k == Min(Min(dbf.arg.v, dbf.reader.total), dbf.reader.max_records) IN
        /\ ~dbf.isNone
        /\ dbf.out = SubSeq(records, Len(records) - k + 1, Len(records))

\* C29 as claimed: the max_records of a reader is between 1 and RecordsCap
\* whatever the constructor received, and no retrieval gives more than
\* max_records records.
C29_MaxRecordsBounds ==
    dbf.reader.held =>
        /\ dbf.reader.max_records >= 1
        /\ dbf.reader.max_records <= RecordsCap
        /\ (dbf.op \in Retrievals /\ ~dbf.isNone) => Len(dbf.out) <= dbf.reader.max_records

\* C30 as claimed: after set_dbf_file returned False no reader is held, and
\* with no reader the retrievals give None, the count 0, the field info [].
C30_FailedSetLeavesNoReader ==
    /\ (dbf.op = "set_dbf_file" /\ ~dbf.flag) => ~dbf.reader.held
    /\ ~dbf.reader.held =>
          /\ dbf.op \in Retrievals => dbf.isNone
          /\ dbf.op = "get_record_count" => dbf.count = 0
          /\ dbf.op = "get_field_info" => dbf.fields = <<>>

====
